---------------------------- MODULE Spec2Model ----------------------------
(***************************************************************************)
(* A model of the curium container-spawn primitive:                        *)
(*   - Container::spawn (container.rs): the parent and the child process   *)
(*     after clone3, one action per statement / system call;               *)
(*   - clone3 (clone3.rs), the mount builder (mount.rs), the               *)
(*     close_range builder (close_range.rs);                               *)
(*   - FixedBufferWriter (fixed_buf_writer.rs).                            *)
(* System calls are the environment: every call whose result the code can  *)
(* observe may succeed or fail.                                            *)
(***************************************************************************)
EXTENDS Integers, Sequences, FiniteSets, TLC

VARIABLES
    root,        \* Container.root
    reqFlags,    \* the flags handed to clone3
    kernel,      \* what the clone3 system call handed back to its caller
    clone,       \* the value clone3 returned to the parent (let clone = ...)
    ppc,         \* parent: the statement of spawn it executes next
    cpc,         \* child: the statement of spawn it executes next
    pfds,        \* descriptors open in the parent
    cfds,        \* descriptors open in the child
    pcloexec,    \* parent descriptors carrying FD_CLOEXEC
    ccloexec,    \* child descriptors carrying FD_CLOEXEC
    readTimeout, \* SO_RCVTIMEO is set on child_sock
    chan,        \* bytes written to parent_sock and not yet read from child_sock
    read_buf,    \* the child's one-byte read buffer
    handshake,   \* which arm of the child's match on child_sock.read was taken
    log,         \* every system call issued so far, both processes, in order
    ret,         \* what spawn returned to the caller in the parent
    status,      \* how the child process terminated
    reaped,      \* waitpid has returned for the child
    COUNT,       \* FixedBufferWriter<COUNT>
    w,           \* a FixedBufferWriter<COUNT>: its buffer and pos
    wcall,       \* the last write call: its argument, its result, the writer before it
    written,     \* the payloads of the successful writes, concatenated in call order
    nwrites,     \* number of write calls made
    builder,     \* a mount builder value: a Mount, a ConfiguredMount, or moved out
    issued,      \* the mount calls issued through builder values, in order
    uid_map,     \* the kernel's /proc/self/uid_map: the line written to it, if any
    ucalls       \* the map_uid_range calls made so far and how each ended

vars == <<root, reqFlags, kernel, clone, ppc, cpc, pfds, cfds, pcloexec, ccloexec,
          readTimeout, chan, read_buf, handshake, log, ret, status, reaped,
          COUNT, w, wcall, written, nwrites, builder, issued, uid_map, ucalls>>

spawnVars == <<root, ppc, cpc, pfds, cfds, pcloexec, ccloexec, readTimeout,
               chan, read_buf, handshake, log, ret, status, reaped>>

writerVars == <<COUNT, w, wcall, written, nwrites>>

cloneVars == <<reqFlags, kernel, clone>>

mountVars == <<builder, issued>>

uidVars == <<uid_map, ucalls>>

(***************************************************************************)
(* Bounds                                                                  *)
(***************************************************************************)
MaxPid == 2

MaxCount == 3

MaxSlice == 3

MaxWrites == 3

MaxBuilders == 1

\* map_uid_range calls followed in one process
MaxMapCalls == 2

Bytes == {1, 2}

Roots == {"/rootfs", "/var/lib/c1"}

\* descriptors numbered 3 and above that the caller may have open before spawn
InheritedFds == {"inherited_fd"}

NULL == "NULL"

None == [tag |-> "None"]

Errnos == {"EPERM", "EINVAL"}

(***************************************************************************)
(* clone3.rs                                                               *)
(***************************************************************************)
CloneFlagNames ==
    {"CLONE_CLEAR_SIGHAND", "CLONE_INTO_CGROUP", "CLONE_NEWIPC", "CLONE_NEWNET",
     "CLONE_NEWUTS", "CLONE_NEWNS", "CLONE_NEWUSER", "CLONE_NEWPID"}

\* what libc::syscall(SYS_clone3, ...) can hand back: -1 with errno set, 0 in
\* the child, the child's pid in the parent; tid is the content of the
\* parent_tid slot when the call returns
KernelReturns ==
    [pid : {-1}, tid : 0 .. MaxPid, errno : Errnos]
        \cup [pid : 0 .. MaxPid, tid : 0 .. MaxPid, errno : {NULL}]

\* the clone_args the wrapper builds
clone_args(flags) ==
    [flags |-> flags \cup {"CLONE_PARENT_SETTID"}, exit_signal |-> "SIGCHLD"]

clone3_Unchecked(flags, k) ==
    IF k.pid = 0
    THEN [tag |-> "Child", errno |-> NULL, pid |-> 0, tid |-> 0]
    ELSE [tag |-> "Parent", errno |-> NULL, pid |-> k.pid, tid |-> k.tid]

clone3(flags, k) ==
    IF k.pid < 0
    THEN [tag |-> "Err", errno |-> k.errno, pid |-> 0, tid |-> 0]
    ELSE IF k.pid = 0
         THEN [tag |-> "Child", errno |-> NULL, pid |-> 0, tid |-> 0]
         ELSE [tag |-> "Parent", errno |-> NULL, pid |-> k.pid, tid |-> k.tid]

(***************************************************************************)
(* mount.rs: the builder.  Flags are sets of flag names, | is \cup.        *)
(***************************************************************************)
Mount_new(target) == [flags |-> {}, target |-> target]

set_propagation(self, propagation_type) ==
    [flags |-> self.flags \cup {propagation_type}, target |-> self.target,
     source |-> NULL, fs_type |-> NULL, action |-> "SetPropagation"]

bind_WithoutFlag(self, source) ==
    [flags |-> self.flags, target |-> self.target,
     source |-> source, fs_type |-> NULL, action |-> "Bind"]

bind(self, source) ==
    [flags |-> self.flags \cup {"MS_BIND"}, target |-> self.target,
     source |-> source, fs_type |-> NULL, action |-> "Bind"]

\* the flags collected on Mount are not carried over
create_DropsFlags(self, fs_type, source) ==
    [flags |-> {}, target |-> self.target,
     source |-> source, fs_type |-> fs_type, action |-> "Create"]

create(self, fs_type, source) ==
    [flags |-> self.flags, target |-> self.target,
     source |-> source, fs_type |-> fs_type, action |-> "Create"]

recursive(self) == [self EXCEPT !.flags = @ \cup {"MS_REC"}]

\* the flag setters container.rs calls on Mount; mount.rs does not define them
readonly(self) == [self EXCEPT !.flags = @ \cup {"MS_RDONLY"}]

no_dev(self) == [self EXCEPT !.flags = @ \cup {"MS_NODEV"}]

no_suid(self) == [self EXCEPT !.flags = @ \cup {"MS_NOSUID"}]

no_exec(self) == [self EXCEPT !.flags = @ \cup {"MS_NOEXEC"}]

\* the arguments of the libc::mount call
mount(source, target, fs_type, mount_flags) ==
    [op |-> "mount", source |-> source, target |-> target,
     fs_type |-> fs_type, flags |-> mount_flags]

\* the Bind arm hands no source to mount
ConfiguredMount_mount_BindNoSource(self) ==
    CASE self.action = "SetPropagation" ->
            mount(NULL, self.target, NULL, self.flags)
      [] self.action = "Bind" ->
            mount(NULL, self.target, NULL, self.flags)
      [] self.action = "Create" ->
            mount(self.source, self.target, self.fs_type, self.flags)

\* ConfiguredMount<Action>::mount
ConfiguredMount_mount(self) ==
    CASE self.action = "SetPropagation" ->
            mount(NULL, self.target, NULL, self.flags)
      [] self.action = "Bind" ->
            mount(self.source, self.target, NULL, self.flags)
      [] self.action = "Create" ->
            mount(self.source, self.target, self.fs_type, self.flags)

\* the arguments of the umount2 call; mount.rs does not define the helper
umount2(target, flags) ==
    [op |-> "umount2", source |-> NULL, target |-> target,
     fs_type |-> NULL, flags |-> flags]

(***************************************************************************)
(* close_range.rs                                                          *)
(***************************************************************************)
CloseRangeBuilder_new(first, last) == [flags |-> {}, first |-> first, last |-> last]

\* the builder without CLOSE_RANGE_CLOEXEC: close() then closes the range
close_on_exec_NoFlag(self) == self

close_on_exec(self) == [self EXCEPT !.flags = @ \cup {"CLOSE_RANGE_CLOEXEC"}]

unshare_before_closing(self) == [self EXCEPT !.flags = @ \cup {"CLOSE_RANGE_UNSHARE"}]

\* the arguments of the close_range call
CloseRangeBuilder_close(self) ==
    [op |-> "close_range", source |-> NULL, target |-> NULL,
     fs_type |-> NULL, flags |-> self.flags]

(***************************************************************************)
(* fixed_buf_writer.rs.  Offset i of the Rust array is index i + 1 here.   *)
(***************************************************************************)
Slices == UNION {[1 .. n -> Bytes] : n \in 0 .. MaxSlice}

FixedBufferWriter_new(N) == [pos |-> 0, buffer |-> [i \in 1 .. N |-> 0]]

\* &self.buffer[0..self.pos]
FixedBufferWriter_buffer(self) == SubSeq(self.buffer, 1, self.pos)

FixedBufferWriter_len(self) == self.pos

is_empty(self) == FixedBufferWriter_len(self) = 0

\* pos advanced before the capacity check
write_PosBeforeCheck(self, N, buf) ==
    LET end == self.pos + Len(buf)
    IN IF end > N
       THEN [self |-> [self EXCEPT !.pos = end],
             result |-> [tag |-> "Err", kind |-> "WriteZero", n |-> 0]]
       ELSE [self |-> [pos |-> end,
                       buffer |-> [i \in 1 .. N |->
                                     IF self.pos < i /\ i <= end
                                     THEN buf[i - self.pos]
                                     ELSE self.buffer[i]]],
             result |-> [tag |-> "Ok", kind |-> NULL, n |-> Len(buf)]]

\* end >= COUNT instead of end > COUNT
write_RejectsExactFill(self, N, buf) ==
    LET end == self.pos + Len(buf)
    IN IF end >= N
       THEN [self |-> self, result |-> [tag |-> "Err", kind |-> "WriteZero", n |-> 0]]
       ELSE [self |-> [pos |-> end,
                       buffer |-> [i \in 1 .. N |->
                                     IF self.pos < i /\ i <= end
                                     THEN buf[i - self.pos]
                                     ELSE self.buffer[i]]],
             result |-> [tag |-> "Ok", kind |-> NULL, n |-> Len(buf)]]

\* the slice copied to the start of the buffer instead of to pos
write_FromStart(self, N, buf) ==
    LET end == self.pos + Len(buf)
    IN IF end > N
       THEN [self |-> self, result |-> [tag |-> "Err", kind |-> "WriteZero", n |-> 0]]
       ELSE [self |-> [pos |-> end,
                       buffer |-> [i \in 1 .. N |->
                                     IF i <= Len(buf) THEN buf[i] ELSE self.buffer[i]]],
             result |-> [tag |-> "Ok", kind |-> NULL, n |-> Len(buf)]]

\* <FixedBufferWriter<N> as Write>::write: the writer afterwards and the result
write(self, N, buf) ==
    LET end == self.pos + Len(buf)
    IN IF end > N
       THEN [self |-> self, result |-> [tag |-> "Err", kind |-> "WriteZero", n |-> 0]]
       ELSE [self |-> [pos |-> end,
                       buffer |-> [i \in 1 .. N |->
                                     IF self.pos < i /\ i <= end
                                     THEN buf[i - self.pos]
                                     ELSE self.buffer[i]]],
             result |-> [tag |-> "Ok", kind |-> NULL, n |-> Len(buf)]]

(***************************************************************************)
(* container.rs: Container::spawn                                          *)
(***************************************************************************)
\* a call without path arguments
Call(op, target) ==
    [op |-> op, source |-> NULL, target |-> target, fs_type |-> NULL, flags |-> {}]

\* one entry of the log: the process, the call and whether it succeeded
Ev(proc, call, ok) ==
    [proc |-> proc, op |-> call.op, source |-> call.source, target |-> call.target,
     fs_type |-> call.fs_type, flags |-> call.flags, ok |-> ok]

Logged(proc, call, ok) == log' = Append(log, Ev(proc, call, ok))

rootfs == root

procfs == root \o "/proc"

sysfs == root \o "/sys"

old_root == root \o "/old_root"

SpawnFlags ==
    {"CLONE_CLEAR_SIGHAND", "CLONE_INTO_CGROUP", "CLONE_NEWIPC", "CLONE_NEWNET",
     "CLONE_NEWUTS", "CLONE_NEWNS", "CLONE_NEWPID"}

Socks == {"parent_sock", "child_sock"}

MountIdle ==
    /\ builder = None
    /\ issued = <<>>

UidIdle ==
    /\ uid_map = None
    /\ ucalls = <<>>

WriterIdle ==
    /\ COUNT = 0
    /\ w = FixedBufferWriter_new(0)
    /\ wcall = None
    /\ written = <<>>
    /\ nwrites = 0

SpawnIdle ==
    /\ root = NULL
    /\ ppc = "idle"
    /\ cpc = "unborn"
    /\ pfds = {}
    /\ cfds = {}
    /\ pcloexec = {}
    /\ ccloexec = {}
    /\ readTimeout = FALSE
    /\ chan = <<>>
    /\ read_buf = <<0>>
    /\ handshake = "pending"
    /\ log = <<>>
    /\ ret = NULL
    /\ status = NULL
    /\ reaped = FALSE

\* Container::new, then the start of spawn
Init ==
    /\ root \in Roots
    /\ reqFlags = SpawnFlags
    /\ kernel = None
    /\ clone = None
    /\ ppc = "pair"
    /\ cpc = "unborn"
    /\ pfds \in SUBSET InheritedFds
    /\ cfds = {}
    /\ pcloexec = {}
    /\ ccloexec = {}
    /\ readTimeout = FALSE
    /\ chan = <<>>
    /\ read_buf = <<0>>
    /\ handshake = "pending"
    /\ log = <<>>
    /\ ret = NULL
    /\ status = NULL
    /\ reaped = FALSE
    /\ WriterIdle
    /\ MountIdle
    /\ UidIdle

\* a panic in the parent unwinds out of spawn and drops both sockets
ParentPanic ==
    /\ ppc' = "Panicked"
    /\ pfds' = pfds \ Socks
    /\ pcloexec' = pcloexec \ Socks

\* a panic in the child after always_abort(): the process aborts
ChildAbort ==
    /\ cpc' = "Terminated"
    /\ status' = "SIGABRT"
    /\ cfds' = {}
    /\ ccloexec' = {}

\* UnixStream::pair()
ParentPair ==
    /\ ppc = "pair"
    /\ \E ok \in BOOLEAN :
         /\ Logged("parent", Call("socketpair", NULL), ok)
         /\ IF ok
            THEN /\ ppc' = "set_read_timeout"
                 /\ pfds' = pfds \cup Socks
                 /\ pcloexec' = pcloexec \cup Socks
            ELSE ParentPanic
    /\ UNCHANGED <<root, cloneVars, cpc, cfds, ccloexec, readTimeout, chan,
                   read_buf, handshake, ret, status, reaped, writerVars,
                   mountVars, uidVars>>

\* the socket left without a read timeout
ParentSetReadTimeout_NoTimeout ==
    /\ ppc = "set_read_timeout"
    /\ ppc' = "clone3"
    /\ Logged("parent", Call("set_read_timeout", "child_sock"), TRUE)
    /\ UNCHANGED <<root, cloneVars, cpc, pfds, cfds, pcloexec, ccloexec, readTimeout,
                   chan, read_buf, handshake, ret, status, reaped, writerVars,
                   mountVars, uidVars>>

\* child_sock.set_read_timeout(Some(5 s)).unwrap()
ParentSetReadTimeout ==
    /\ ppc = "set_read_timeout"
    /\ \E ok \in BOOLEAN :
         /\ Logged("parent", Call("set_read_timeout", "child_sock"), ok)
         /\ IF ok
            THEN /\ ppc' = "clone3"
                 /\ readTimeout' = TRUE
                 /\ UNCHANGED <<pfds, pcloexec>>
            ELSE /\ ParentPanic
                 /\ UNCHANGED readTimeout
    /\ UNCHANGED <<root, cloneVars, cpc, cfds, ccloexec, chan,
                   read_buf, handshake, ret, status, reaped, writerVars,
                   mountVars, uidVars>>

\* clone3(flags).expect("clone failed"): the call returns in the parent with
\* -1 or the child's pid, and on success also in the new child with 0
ParentClone ==
    /\ ppc = "clone3"
    /\ \E k \in KernelReturns :
         /\ k.pid # 0
         /\ k.pid > 0 => k.tid = k.pid
         /\ k.pid < 0 => k.tid = 0
         /\ kernel' = k
         /\ clone' = clone3(reqFlags, k)
         /\ Logged("parent",
                   [Call("clone3", NULL) EXCEPT !.flags = clone_args(reqFlags).flags],
                   k.pid > 0)
         /\ IF clone3(reqFlags, k).tag = "Err"
            THEN /\ ParentPanic
                 /\ UNCHANGED <<cpc, cfds, ccloexec>>
            ELSE /\ ppc' = "drop_child_sock"
                 /\ cpc' = IF clone3(reqFlags, [k EXCEPT !.pid = 0]).tag = "Child"
                           THEN "drop_parent_sock" ELSE "Terminated"
                 /\ cfds' = pfds
                 /\ ccloexec' = pcloexec
                 /\ UNCHANGED <<pfds, pcloexec>>
    /\ UNCHANGED <<root, reqFlags, readTimeout, chan, read_buf, handshake, ret,
                   status, reaped, writerVars,
                   mountVars, uidVars>>

\* CloneResult::Parent: drop(child_sock)
ParentDropChildSock ==
    /\ ppc = "drop_child_sock"
    /\ ppc' = "write_all"
    /\ pfds' = pfds \ {"child_sock"}
    /\ pcloexec' = pcloexec \ {"child_sock"}
    /\ Logged("parent", Call("close", "child_sock"), TRUE)
    /\ UNCHANGED <<root, cloneVars, cpc, cfds, ccloexec, readTimeout, chan,
                   read_buf, handshake, ret, status, reaped, writerVars,
                   mountVars, uidVars>>

\* parent_sock.write_all(&[1]).unwrap(): fails with EPIPE once no descriptor of
\* the peer endpoint is open, and may fail for lack of kernel memory
ParentWrite ==
    /\ ppc = "write_all"
    /\ \E ok \in BOOLEAN :
         /\ ("child_sock" \notin (pfds \cup cfds)) => ~ok
         /\ Logged("parent", Call("write", "parent_sock"), ok)
         /\ IF ok
            THEN /\ ppc' = "drop_parent_sock"
                 /\ chan' = Append(chan, 1)
                 /\ UNCHANGED <<pfds, pcloexec>>
            ELSE /\ ParentPanic
                 /\ UNCHANGED chan
    /\ UNCHANGED <<root, cloneVars, cpc, cfds, ccloexec, readTimeout,
                   read_buf, handshake, ret, status, reaped, writerVars,
                   mountVars, uidVars>>

\* drop(parent_sock)
ParentDropParentSock ==
    /\ ppc = "drop_parent_sock"
    /\ ppc' = "waitpid"
    /\ pfds' = pfds \ {"parent_sock"}
    /\ pcloexec' = pcloexec \ {"parent_sock"}
    /\ Logged("parent", Call("close", "parent_sock"), TRUE)
    /\ UNCHANGED <<root, cloneVars, cpc, cfds, ccloexec, readTimeout, chan,
                   read_buf, handshake, ret, status, reaped, writerVars,
                   mountVars, uidVars>>

\* waitpid with WNOHANG: returns whether or not the child has terminated
ParentWaitpid_NoHang ==
    /\ ppc = "waitpid"
    /\ ppc' = "return_ok"
    /\ reaped' = (cpc = "Terminated")
    /\ Logged("parent", Call("waitpid", NULL), TRUE)
    /\ UNCHANGED <<root, cloneVars, cpc, pfds, cfds, pcloexec, ccloexec,
                   readTimeout, chan, read_buf, handshake, ret, status, writerVars,
                   mountVars, uidVars>>

\* libc::waitpid(child.pid, null, 0): blocks until the child has terminated;
\* the status is not collected and the return value is not looked at
ParentWaitpid ==
    /\ ppc = "waitpid"
    /\ cpc = "Terminated"
    /\ ppc' = "return_ok"
    /\ reaped' = TRUE
    /\ Logged("parent", Call("waitpid", NULL), TRUE)
    /\ UNCHANGED <<root, cloneVars, cpc, pfds, cfds, pcloexec, ccloexec,
                   readTimeout, chan, read_buf, handshake, ret, status, writerVars,
                   mountVars, uidVars>>

\* Ok(())
ParentReturnOk ==
    /\ ppc = "return_ok"
    /\ ppc' = "Done"
    /\ ret' = "Ok"
    /\ UNCHANGED <<root, cloneVars, cpc, pfds, cfds, pcloexec, ccloexec,
                   readTimeout, chan, read_buf, handshake, log, status, reaped, writerVars,
                   mountVars, uidVars>>

\* the child goes from drop(parent_sock) straight to the read
ChildDropParentSock_ThenRead ==
    /\ cpc = "drop_parent_sock"
    /\ cpc' = "read"
    /\ cfds' = cfds \ {"parent_sock"}
    /\ ccloexec' = ccloexec \ {"parent_sock"}
    /\ Logged("child", Call("close", "parent_sock"), TRUE)
    /\ UNCHANGED <<root, cloneVars, ppc, pfds, pcloexec, readTimeout, chan,
                   read_buf, handshake, ret, status, reaped, writerVars,
                   mountVars, uidVars>>

\* CloneResult::Child: std::panic::always_abort(); drop(parent_sock)
ChildDropParentSock ==
    /\ cpc = "drop_parent_sock"
    /\ cpc' = "close_range"
    /\ cfds' = cfds \ {"parent_sock"}
    /\ ccloexec' = ccloexec \ {"parent_sock"}
    /\ Logged("child", Call("close", "parent_sock"), TRUE)
    /\ UNCHANGED <<root, cloneVars, ppc, pfds, pcloexec, readTimeout, chan,
                   read_buf, handshake, ret, status, reaped, writerVars,
                   mountVars, uidVars>>

\* the result of close() discarded instead of expected
ChildCloseRange_IgnoresErr ==
    /\ cpc = "close_range"
    /\ \E ok \in BOOLEAN :
         Logged("child", CloseRangeBuilder_close(close_on_exec(CloseRangeBuilder_new(3, "u32::MAX"))), ok)
    /\ cpc' = "read"
    /\ ccloexec' = cfds
    /\ UNCHANGED <<root, cloneVars, ppc, pfds, cfds, pcloexec, readTimeout, chan,
                   read_buf, handshake, ret, status, reaped, writerVars,
                   mountVars, uidVars>>

\* CloseRangeBuilder::new(3, u32::MAX).close_on_exec().close().expect(..):
\* every descriptor of the model is numbered 3 or above
ChildCloseRange ==
    /\ cpc = "close_range"
    /\ LET b == close_on_exec(CloseRangeBuilder_new(3, "u32::MAX"))
       IN \E ok \in BOOLEAN :
            /\ Logged("child", CloseRangeBuilder_close(b), ok)
            /\ IF ok
               THEN /\ cpc' = "read"
                    /\ IF "CLOSE_RANGE_CLOEXEC" \in b.flags
                       THEN /\ ccloexec' = cfds
                            /\ UNCHANGED cfds
                       ELSE /\ cfds' = {}
                            /\ ccloexec' = {}
                    /\ UNCHANGED status
               ELSE ChildAbort
    /\ UNCHANGED <<root, cloneVars, ppc, pfds, pcloexec, readTimeout, chan,
                   read_buf, handshake, ret, reaped, writerVars,
                   mountVars, uidVars>>

\* child_sock.read(&mut read_buf) returns Ok(n), n > 0, when a byte is
\* queued: the arm Ok(_) => ()
ReadOkByte ==
    /\ "child_sock" \in cfds
    /\ chan # <<>>
    /\ read_buf' = <<Head(chan)>>
    /\ chan' = Tail(chan)
    /\ handshake' = "byte"
    /\ Logged("child", Call("read", "child_sock"), TRUE)
    /\ cpc' = "mount_propagation"
    /\ UNCHANGED <<cfds, ccloexec, status>>

ReadOkZero_Accepted ==
    /\ "child_sock" \in cfds
    /\ chan = <<>>
    /\ "parent_sock" \notin (pfds \cup cfds)
    /\ handshake' = "eof"
    /\ Logged("child", Call("read", "child_sock"), TRUE)
    /\ cpc' = "mount_propagation"
    /\ UNCHANGED <<chan, read_buf, cfds, ccloexec, status>>

\* the read returns Ok(0) when nothing is queued and no descriptor of the
\* peer endpoint is open: the arm Ok(0) => panic!(..)
ReadOkZero ==
    /\ "child_sock" \in cfds
    /\ chan = <<>>
    /\ "parent_sock" \notin (pfds \cup cfds)
    /\ handshake' = "eof"
    /\ Logged("child", Call("read", "child_sock"), TRUE)
    /\ ChildAbort
    /\ UNCHANGED <<chan, read_buf>>

ReadErr_Ignored ==
    /\ \/ "child_sock" \notin cfds
       \/ chan = <<>> /\ readTimeout
    /\ handshake' = "error"
    /\ Logged("child", Call("read", "child_sock"), FALSE)
    /\ cpc' = "mount_propagation"
    /\ UNCHANGED <<chan, read_buf, cfds, ccloexec, status>>

\* the read fails when nothing arrives within the read timeout (or the
\* descriptor is not open): the arm Err(_) => panic!(..)
ReadErr ==
    /\ \/ "child_sock" \notin cfds
       \/ chan = <<>> /\ readTimeout
    /\ handshake' = "error"
    /\ Logged("child", Call("read", "child_sock"), FALSE)
    /\ ChildAbort
    /\ UNCHANGED <<chan, read_buf>>

\* match child_sock.read(&mut read_buf) { .. }
ChildRead ==
    /\ cpc = "read"
    /\ (ReadOkByte \/ ReadOkZero \/ ReadErr)
    /\ UNCHANGED <<root, cloneVars, ppc, pfds, pcloexec, readTimeout,
                   ret, reaped, writerVars,
                   mountVars, uidVars>>

\* a mount whose failure is fatal: <builder>.mount().unwrap()
MountOrAbort(cm, next) ==
    /\ \E ok \in BOOLEAN :
         /\ Logged("child", ConfiguredMount_mount(cm), ok)
         /\ IF ok
            THEN /\ cpc' = next
                 /\ UNCHANGED <<cfds, ccloexec, status>>
            ELSE ChildAbort
    /\ UNCHANGED <<root, cloneVars, ppc, pfds, pcloexec, readTimeout, chan,
                   read_buf, handshake, ret, reaped, writerVars,
                   mountVars, uidVars>>

\* a libc call whose return value spawn does not look at
Unchecked(call, next) ==
    /\ \E ok \in BOOLEAN : Logged("child", call, ok)
    /\ cpc' = next
    /\ UNCHANGED <<root, cloneVars, ppc, pfds, cfds, pcloexec, ccloexec,
                   readTimeout, chan, read_buf, handshake, ret, status, reaped,
                   writerVars,
                   mountVars, uidVars>>

\* Mount::new(c"/").set_propagation(Private).recursive().mount().unwrap()
ChildMountPropagation ==
    /\ cpc = "mount_propagation"
    /\ MountOrAbort(recursive(set_propagation(Mount_new("/"), "MS_PRIVATE")),
                    "mount_bind")

\* Mount::new(rootfs).bind(rootfs).mount().unwrap()
ChildMountBind ==
    /\ cpc = "mount_bind"
    /\ MountOrAbort(bind(Mount_new(rootfs), rootfs), "mount_proc")

\* Mount::new(procfs).no_dev().no_suid().no_exec().create(c"proc", c"proc")
ChildMountProc ==
    /\ cpc = "mount_proc"
    /\ MountOrAbort(create(no_exec(no_suid(no_dev(Mount_new(procfs)))), "proc", "proc"),
                    "mount_sys")

\* Mount::new(sysfs).readonly().no_dev().no_suid().no_exec().create(c"sysfs", c"sys")
ChildMountSys ==
    /\ cpc = "mount_sys"
    /\ MountOrAbort(
         create(no_exec(no_suid(no_dev(readonly(Mount_new(sysfs))))), "sysfs", "sys"),
         "mkdir")

\* libc::mkdir(old_root, 0)
ChildMkdir ==
    /\ cpc = "mkdir"
    /\ Unchecked(Call("mkdir", old_root), "pivot_root")

\* libc::syscall(SYS_pivot_root, rootfs, old_root)
ChildPivotRoot ==
    /\ cpc = "pivot_root"
    /\ Unchecked([Call("pivot_root", old_root) EXCEPT !.source = rootfs], "umount2")

\* umount2(c"/old_root", MNT_DETACH).unwrap(): /old_root is a mount point
\* only once pivot_root has put the old root there
ChildUmount ==
    /\ cpc = "umount2"
    /\ \E ok \in BOOLEAN :
         /\ ok => \E i \in DOMAIN log : log[i].op = "pivot_root" /\ log[i].ok
         /\ Logged("child", umount2("/old_root", {"MNT_DETACH"}), ok)
         /\ IF ok
            THEN /\ cpc' = "rmdir"
                 /\ UNCHANGED <<cfds, ccloexec, status>>
            ELSE ChildAbort
    /\ UNCHANGED <<root, cloneVars, ppc, pfds, pcloexec, readTimeout, chan,
                   read_buf, handshake, ret, reaped, writerVars,
                   mountVars, uidVars>>

\* libc::rmdir(c"/old_root")
ChildRmdir ==
    /\ cpc = "rmdir"
    /\ Unchecked(Call("rmdir", "/old_root"), "chdir")

\* libc::chdir(c"/")
ChildChdir ==
    /\ cpc = "chdir"
    /\ Unchecked(Call("chdir", "/"), "do_exec")

\* self.do_exec(argv, envp): execve replaces the image and closes the
\* close-on-exec descriptors, or returns and do_exec yields Err
ChildDoExec ==
    /\ cpc = "do_exec"
    /\ \E ok \in BOOLEAN :
         /\ Logged("child", Call("execve", NULL), ok)
         /\ IF ok
            THEN /\ cpc' = "Image"
                 /\ cfds' = cfds \ ccloexec
                 /\ ccloexec' = {}
            ELSE /\ cpc' = "exec_failed"
                 /\ UNCHANGED <<cfds, ccloexec>>
    /\ UNCHANGED <<root, cloneVars, ppc, pfds, pcloexec, readTimeout, chan,
                   read_buf, handshake, ret, status, reaped, writerVars,
                   mountVars, uidVars>>

\* do_exec's Err handed back to the caller of spawn instead of exiting
ChildExecFailed_Returns ==
    /\ cpc = "exec_failed"
    /\ cpc' = "Returned"
    /\ Logged("child", Call("write", "stdout"), TRUE)
    /\ UNCHANGED <<root, cloneVars, ppc, pfds, cfds, pcloexec, ccloexec, readTimeout,
                   chan, read_buf, handshake, ret, status, reaped, writerVars,
                   mountVars, uidVars>>

\* println!("exec failed: {}", err); libc::_exit(1).  println! panics when
\* the write to stdout fails, and a panic here aborts
ChildExecFailed ==
    /\ cpc = "exec_failed"
    /\ \E ok \in BOOLEAN :
         IF ok
         THEN /\ log' = log \o << Ev("child", Call("write", "stdout"), TRUE),
                                  Ev("child", Call("_exit", NULL), TRUE) >>
              /\ cpc' = "Terminated"
              /\ status' = "exit(1)"
              /\ cfds' = {}
              /\ ccloexec' = {}
         ELSE /\ Logged("child", Call("write", "stdout"), FALSE)
              /\ ChildAbort
    /\ UNCHANGED <<root, cloneVars, ppc, pfds, pcloexec, readTimeout, chan,
                   read_buf, handshake, ret, reaped, writerVars,
                   mountVars, uidVars>>

\* the target program, once it runs in the child's place, may terminate
ImageExit ==
    /\ cpc = "Image"
    /\ cpc' = "Terminated"
    /\ status' \in {"exit(0)", "exit(1)"}
    /\ cfds' = {}
    /\ ccloexec' = {}
    /\ UNCHANGED <<root, cloneVars, ppc, pfds, pcloexec, readTimeout, chan,
                   read_buf, handshake, log, ret, reaped, writerVars,
                   mountVars, uidVars>>

Parent ==
    \/ ParentPair
    \/ ParentSetReadTimeout
    \/ ParentClone
    \/ ParentDropChildSock
    \/ ParentWrite
    \/ ParentDropParentSock
    \/ ParentWaitpid
    \/ ParentReturnOk

Child ==
    \/ ChildDropParentSock
    \/ ChildCloseRange
    \/ ChildRead
    \/ ChildMountPropagation
    \/ ChildMountBind
    \/ ChildMountProc
    \/ ChildMountSys
    \/ ChildMkdir
    \/ ChildPivotRoot
    \/ ChildUmount
    \/ ChildRmdir
    \/ ChildChdir
    \/ ChildDoExec
    \/ ChildExecFailed
    \/ ImageExit

Next == Parent \/ Child

Spec == Init /\ [][Next]_vars

\* The child's blocking read returns once the socket has a byte, an end of
\* file or an expired SO_RCVTIMEO to report.  Nothing is assumed of the
\* parent, which may stall at any statement.
FairSpec == Spec /\ WF_vars(ChildRead)

\* Fair scheduling of both processes: neither stays forever at a statement
\* it can execute, and the target program, once it runs, terminates.
LiveSpec == Spec /\ WF_vars(Parent) /\ WF_vars(Child)

(***************************************************************************)
(* FixedBufferWriter on its own: a writer of any capacity up to MaxCount   *)
(* receives up to MaxWrites write calls with arbitrary slices.             *)
(***************************************************************************)
CloneIdle ==
    /\ reqFlags = {}
    /\ kernel = None
    /\ clone = None

WriterInit ==
    /\ COUNT \in 0 .. MaxCount
    /\ w = FixedBufferWriter_new(COUNT)
    /\ wcall = None
    /\ written = <<>>
    /\ nwrites = 0
    /\ SpawnIdle
    /\ CloneIdle
    /\ MountIdle
    /\ UidIdle

WriterWrite ==
    /\ nwrites < MaxWrites
    /\ \E buf \in Slices :
         LET r == write(w, COUNT, buf)
         IN /\ w' = r.self
            /\ wcall' = [tag |-> "write", buf |-> buf, result |-> r.result, before |-> w]
            /\ written' = IF r.result.tag = "Ok" THEN written \o buf ELSE written
    /\ nwrites' = nwrites + 1
    /\ UNCHANGED <<COUNT, spawnVars, cloneVars, mountVars, uidVars>>

WriterNext == WriterWrite

WriterSpec == WriterInit /\ [][WriterNext]_vars

(***************************************************************************)
(* clone3 on its own: any flag set, any result of the system call.         *)
(***************************************************************************)
CloneInit ==
    /\ reqFlags \in SUBSET CloneFlagNames
    /\ kernel = None
    /\ clone = None
    /\ SpawnIdle
    /\ WriterIdle
    /\ MountIdle
    /\ UidIdle

CloneCall ==
    /\ clone = None
    /\ \E k \in KernelReturns :
         /\ kernel' = k
         /\ clone' = clone3(reqFlags, k)
         /\ Logged("caller",
                   [Call("clone3", NULL) EXCEPT !.flags = clone_args(reqFlags).flags],
                   k.pid >= 0)
    /\ UNCHANGED <<reqFlags, root, ppc, cpc, pfds, cfds, pcloexec, ccloexec,
                   readTimeout, chan, read_buf, handshake, ret, status, reaped,
                   writerVars,
                   mountVars, uidVars>>

CloneNext == CloneCall

CloneSpec == CloneInit /\ [][CloneNext]_vars

(***************************************************************************)
(* The mount builder on its own: up to MaxBuilders values made with        *)
(* Mount::new, taken through any chain of methods their types allow.       *)
(***************************************************************************)
MountTargets == {"/", "/rootfs/proc"}

MountSources == {"/rootfs", "proc"}

FsTypes == {"proc", "sysfs"}

MountPropagation == {"MS_PRIVATE", "MS_SHARED", "MS_SLAVE", "MS_UNBINDABLE"}

Restrictions == {"readonly", "no_dev", "no_suid", "no_exec"}

Restrict(self, setter) ==
    CASE setter = "readonly" -> readonly(self)
      [] setter = "no_dev" -> no_dev(self)
      [] setter = "no_suid" -> no_suid(self)
      [] setter = "no_exec" -> no_exec(self)

IsMount == builder # None /\ builder.stage = "Mount"

IsConfigured == builder # None /\ builder.stage = "Configured"

BuildersMade == IF builder = None THEN 0 ELSE builder.id

MountInit ==
    /\ builder = None
    /\ issued = <<>>
    /\ SpawnIdle
    /\ CloneIdle
    /\ WriterIdle
    /\ UidIdle

\* Mount::new(target)
BuilderNew ==
    /\ ~IsMount /\ ~IsConfigured
    /\ BuildersMade < MaxBuilders
    /\ \E target \in MountTargets :
         builder' = [stage |-> "Mount", id |-> BuildersMade + 1, val |-> Mount_new(target)]
    /\ UNCHANGED <<issued, spawnVars, cloneVars, writerVars, uidVars>>

\* a flag setter of Mount: self -> Self
BuilderRestrict ==
    /\ IsMount
    /\ \E setter \in Restrictions :
         /\ Restrict(builder.val, setter) # builder.val
         /\ builder' = [builder EXCEPT !.val = Restrict(@, setter)]
    /\ UNCHANGED <<issued, spawnVars, cloneVars, writerVars, uidVars>>

\* Mount::set_propagation(self, propagation_type)
BuilderSetPropagation ==
    /\ IsMount
    /\ \E propagation_type \in MountPropagation :
         builder' = [builder EXCEPT !.stage = "Configured",
                                    !.val = set_propagation(@, propagation_type)]
    /\ UNCHANGED <<issued, spawnVars, cloneVars, writerVars, uidVars>>

\* Mount::bind(self, source)
BuilderBind ==
    /\ IsMount
    /\ \E source \in MountSources :
         builder' = [builder EXCEPT !.stage = "Configured", !.val = bind(@, source)]
    /\ UNCHANGED <<issued, spawnVars, cloneVars, writerVars, uidVars>>

\* Mount::create(self, fs_type, source)
BuilderCreate ==
    /\ IsMount
    /\ \E fs_type \in FsTypes, source \in MountSources :
         builder' = [builder EXCEPT !.stage = "Configured",
                                    !.val = create(@, fs_type, source)]
    /\ UNCHANGED <<issued, spawnVars, cloneVars, writerVars, uidVars>>

\* ConfiguredMount<ActionSetPropagation>::recursive and
\* ConfiguredMount<ActionBind>::recursive; ActionCreate has no such method
BuilderRecursive ==
    /\ IsConfigured
    /\ builder.val.action \in {"SetPropagation", "Bind"}
    /\ recursive(builder.val) # builder.val
    /\ builder' = [builder EXCEPT !.val = recursive(@)]
    /\ UNCHANGED <<issued, spawnVars, cloneVars, writerVars, uidVars>>

\* ConfiguredMount<Action>::mount(self): the value is moved into the call
BuilderMount ==
    /\ IsConfigured
    /\ issued' = Append(issued, [id |-> builder.id, action |-> builder.val.action,
                                 call |-> ConfiguredMount_mount(builder.val)])
    /\ builder' = [builder EXCEPT !.stage = "Moved", !.val = None]
    /\ UNCHANGED <<spawnVars, cloneVars, writerVars, uidVars>>

MountNext ==
    \/ BuilderNew
    \/ BuilderRestrict
    \/ BuilderSetPropagation
    \/ BuilderBind
    \/ BuilderCreate
    \/ BuilderRecursive
    \/ BuilderMount

MountSpec == MountInit /\ [][MountNext]_vars

(***************************************************************************)
(* uid_map.rs.  Text is a sequence of ASCII codes.                         *)
(***************************************************************************)
\* FixedBufferWriter::<33>
UidLineCapacity == 33

Uids == {0, 1000}

Counts == {2, 65536}

\* what the open and the write of /proc/self/uid_map can meet in the kernel
UidKernel == {"ok", "open_err", "write_err"}

RECURSIVE Digits(_)
\* Display for u32: the decimal digits, most significant first
Digits(n) == IF n < 10 THEN <<48 + n>> ELSE Digits(n \div 10) \o <<48 + (n % 10)>>

\* io::Write::write_all over the writer: an empty slice makes no call of write
write_all(self, N, buf) ==
    IF Len(buf) = 0
    THEN [self |-> self, result |-> [tag |-> "Ok", kind |-> NULL, n |-> 0]]
    ELSE write(self, N, buf)

RECURSIVE write_fmt(_, _, _)
\* write!(&mut uid_map_line, ..): the pieces written in order, up to the
\* first error
write_fmt(self, N, pieces) ==
    IF pieces = <<>>
    THEN [self |-> self, result |-> [tag |-> "Ok", kind |-> NULL, n |-> 0]]
    ELSE LET r == write_all(self, N, Head(pieces))
         IN IF r.result.tag = "Err" THEN r ELSE write_fmt(r.self, N, Tail(pieces))

\* write!(.., "{} {} {}", inside_uid, outside_uid, count)
uid_map_line(outside_uid, inside_uid, count) ==
    write_fmt(FixedBufferWriter_new(UidLineCapacity), UidLineCapacity,
              << Digits(inside_uid), <<32>>, Digits(outside_uid), <<32>>, Digits(count) >>)

\* how one call ended
UidCall(outside_uid, inside_uid, count, stage, result, errno) ==
    [outside_uid |-> outside_uid, inside_uid |-> inside_uid, count |-> count,
     stage |-> stage, result |-> result, errno |-> errno]

\* fn map_uid_range(outside_uid, inside_uid, count): open, format, one
\* write.  The kernel accepts one write of a uid_map and answers EPERM to
\* any later one; every failure is an expect or a panic!, and the function
\* returns ()
map_uid_range(outside_uid, inside_uid, count, k) ==
    LET line == uid_map_line(outside_uid, inside_uid, count)
        buf  == FixedBufferWriter_buffer(line.self)
        done(stage, result, errno) ==
            ucalls' = Append(ucalls, UidCall(outside_uid, inside_uid, count,
                                             stage, result, errno))
    IN CASE k = "open_err" ->
              /\ done("open", "Panicked", "EPERM")
              /\ UNCHANGED uid_map
         [] k # "open_err" /\ line.result.tag = "Err" ->
              /\ done("format", "Panicked", NULL)
              /\ UNCHANGED uid_map
         [] k # "open_err" /\ line.result.tag = "Ok" /\ uid_map # None ->
              /\ done("write", "Panicked", "EPERM")
              /\ UNCHANGED uid_map
         [] k = "write_err" /\ line.result.tag = "Ok" /\ uid_map = None ->
              /\ done("write", "Panicked", "EINVAL")
              /\ UNCHANGED uid_map
         [] k = "ok" /\ line.result.tag = "Ok" /\ uid_map = None ->
              /\ done("write", "Returned", NULL)
              /\ uid_map' = [tag |-> "Some", line |-> buf]

UidInit ==
    /\ UidIdle
    /\ SpawnIdle
    /\ CloneIdle
    /\ WriterIdle
    /\ MountIdle

MapUidRange ==
    /\ Len(ucalls) < MaxMapCalls
    /\ \E outside_uid, inside_uid \in Uids, count \in Counts, k \in UidKernel :
         map_uid_range(outside_uid, inside_uid, count, k)
    /\ UNCHANGED <<spawnVars, cloneVars, writerVars, mountVars>>

\* pub fn map_uid(outside_uid, inside_uid)
MapUid ==
    /\ Len(ucalls) < MaxMapCalls
    /\ \E outside_uid, inside_uid \in Uids, k \in UidKernel :
         map_uid_range(outside_uid, inside_uid, 1, k)
    /\ UNCHANGED <<spawnVars, cloneVars, writerVars, mountVars>>

UidNext ==
    \/ MapUidRange
    \/ MapUid

UidSpec == UidInit /\ [][UidNext]_vars

(***************************************************************************)
(* Properties                                                              *)
(***************************************************************************)
IsPrefix(s, t) == Len(s) <= Len(t) /\ SubSeq(t, 1, Len(s)) = s

ChildLog == SelectSeq(log, LAMBDA e : e.proc = "child")

ParentLog == SelectSeq(log, LAMBDA e : e.proc = "parent")

MountRelated(e) == e.op \in {"mount", "pivot_root", "umount2"}

MountCalls == SelectSeq(ChildLog, MountRelated)

AllOk == \A i \in DOMAIN log : log[i].ok

ChildAllOk == \A i \in DOMAIN log : log[i].proc = "child" => log[i].ok

ExecDone == \E i \in DOMAIN log : log[i].op = "execve" /\ log[i].ok

ExecAttempted == \E i \in DOMAIN log : log[i].op = "execve"

Sys(op, source, target, fs_type, flags) ==
    [proc |-> "child", op |-> op, source |-> source, target |-> target,
     fs_type |-> fs_type, flags |-> flags, ok |-> TRUE]

\* the five calls the specification lists, with the arguments it gives them
FiveCalls ==
    << Sys("mount", NULL, "/", NULL, {"MS_PRIVATE", "MS_REC"}),
       Sys("mount", root, root, NULL, {"MS_BIND"}),
       Sys("mount", "proc", root \o "/proc", "proc",
           {"MS_NODEV", "MS_NOSUID", "MS_NOEXEC"}),
       Sys("mount", "sys", root \o "/sys", "sysfs",
           {"MS_RDONLY", "MS_NODEV", "MS_NOSUID", "MS_NOEXEC"}),
       Sys("pivot_root", root, root \o "/old_root", NULL, {}) >>

DetachOldRoot == Sys("umount2", NULL, "/old_root", NULL, {"MNT_DETACH"})

\* C1 as stated: in a full spawn in which every step succeeds the child's
\* mount-related calls are exactly the five listed ones and no other.
C1_ExactlyFiveMountCalls ==
    (ExecDone /\ AllOk) => MountCalls = FiveCalls

\* C1 amended: in a full spawn in which every step succeeds the child's
\* mount-related calls are exactly the five listed ones, in that order,
\* followed by one detach-unmount of /old_root, and no other.
C1_MountSequenceThenDetach ==
    (ExecDone /\ AllOk) => MountCalls = FiveCalls \o <<DetachOldRoot>>

C1_Witness == ExecDone /\ AllOk /\ cpc = "Image"

\* C2: a child whose handshake read returned EOF or failed has aborted, has
\* issued no mount, pivot_root or umount call and has attempted no execve.
C2_NoMountAfterFailedHandshake ==
    handshake \in {"eof", "error"} =>
        /\ MountCalls = <<>>
        /\ ~ExecAttempted
        /\ cpc = "Terminated"
        /\ status = "SIGABRT"

C2_Witness == handshake = "eof" /\ ppc = "Panicked" /\ cpc = "Terminated"

ParentSetupOps == {"socketpair", "set_read_timeout", "clone3", "close"}

IsParentWrite(e) == e.proc = "parent" /\ e.op = "write" /\ e.ok

IsChildRead(e) == e.proc = "child" /\ e.op = "read" /\ e.ok

\* C3: in every interleaving, every step of the parent before its write is
\* logged before the write, the child's read that observes the byte comes
\* after the write, and every mount-sequence call of the child comes after
\* that read.
C3_HandshakeTotalOrder ==
    /\ \A j \in DOMAIN log :
         IsParentWrite(log[j]) =>
            /\ \E k \in 1 .. (j - 1) :
                  log[k] = Ev("parent", Call("close", "child_sock"), TRUE)
            /\ \A k \in DOMAIN log :
                  (log[k].proc = "parent" /\ log[k].op \in ParentSetupOps
                     /\ log[k].target # "parent_sock") => k < j
    /\ handshake = "byte" =>
         \E j, i \in DOMAIN log :
            j < i /\ IsParentWrite(log[j]) /\ IsChildRead(log[i])
    /\ \A m \in DOMAIN log :
         (log[m].proc = "child" /\ MountRelated(log[m])) =>
            /\ handshake = "byte"
            /\ \E i \in 1 .. (m - 1) : IsChildRead(log[i])

C3_Witness ==
    /\ handshake = "byte"
    /\ MountCalls # <<>>
    /\ ppc = "drop_parent_sock"

ClaimedChildOps == {"close", "close_range", "read", "mount", "pivot_root", "execve"}

ClaimedSteps == SelectSeq(ChildLog, LAMBDA e : e.op \in ClaimedChildOps)

\* the child's calls among the claimed operations, each as <<call, target>>
ChildSteps == [i \in DOMAIN ClaimedSteps |-> <<ClaimedSteps[i].op, ClaimedSteps[i].target>>]

ExpectedChildSteps ==
    << <<"close", "parent_sock">>,
       <<"close_range", NULL>>,
       <<"read", "child_sock">>,
       <<"mount", "/">>,
       <<"mount", root>>,
       <<"mount", root \o "/proc">>,
       <<"mount", root \o "/sys">>,
       <<"pivot_root", root \o "/old_root">>,
       <<"execve", NULL>> >>

\* C4: while every call of the child succeeds, the child's steps follow the
\* order close(parent endpoint), close_range, handshake read, the five
\* mount-sequence calls, execve, all of them after the clone; a child that
\* reached execve has performed every one of them.
C4_ChildOrder ==
    /\ ChildLog # <<>> =>
         \E i \in DOMAIN log :
            /\ log[i].proc = "parent" /\ log[i].op = "clone3" /\ log[i].ok
            /\ \A j \in DOMAIN log : log[j].proc = "child" => i < j
    /\ ChildAllOk => IsPrefix(ChildSteps, ExpectedChildSteps)
    /\ (ChildAllOk /\ ExecDone) => ChildSteps = ExpectedChildSteps

C4_Witness == ChildAllOk /\ ExecDone /\ handshake = "byte"

MountSequenceOps == {"mount", "mkdir", "pivot_root", "umount2", "rmdir", "chdir"}

\* C6 as stated: once a step of the mount sequence (a mount, mkdir,
\* pivot_root, umount2, rmdir or chdir) has failed, the child performs no
\* execve.
C6_FailedStepNeverExecs ==
    \A i \in DOMAIN log :
        (log[i].proc = "child" /\ log[i].op \in MountSequenceOps /\ ~log[i].ok)
            => ~ExecAttempted

Overflows == wcall # None /\ wcall.before.pos + Len(wcall.buf) > COUNT

Fits == wcall # None /\ wcall.before.pos + Len(wcall.buf) <= COUNT

\* C7: a write whose length added to the position exceeds COUNT fails with
\* WriteZero and leaves the buffer and the position as they were.
C7_OverflowRejectedUnchanged ==
    Overflows =>
        /\ wcall.result.tag = "Err"
        /\ wcall.result.kind = "WriteZero"
        /\ w.buffer = wcall.before.buffer
        /\ w.pos = wcall.before.pos

C7_Witness == Overflows /\ wcall.before.pos > 0 /\ wcall.before.pos < COUNT

\* C8: a write of n bytes with position + n <= COUNT returns n, places the
\* bytes at offsets [position, position + n), changes no other byte and
\* advances the position by n.
C8_FittingWriteSucceeds ==
    Fits =>
        LET p == wcall.before.pos
            n == Len(wcall.buf)
        IN /\ wcall.result.tag = "Ok"
           /\ wcall.result.n = n
           /\ w.pos = p + n
           /\ Len(w.buffer) = COUNT
           /\ \A i \in 1 .. COUNT :
                 w.buffer[i] = IF p < i /\ i <= p + n
                               THEN wcall.buf[i - p]
                               ELSE wcall.before.buffer[i]

C8_Witness ==
    /\ Fits
    /\ Len(wcall.buf) > 0
    /\ wcall.before.pos > 0
    /\ wcall.before.pos + Len(wcall.buf) = COUNT

\* C9: after any sequence of writes the position is at most COUNT, len() is
\* the total length of the successful writes and buffer() is their
\* concatenation in call order.
C9_BufferIsSuccessfulWrites ==
    /\ w.pos <= COUNT
    /\ FixedBufferWriter_len(w) = Len(written)
    /\ FixedBufferWriter_buffer(w) = written

C9_Witness ==
    /\ nwrites = MaxWrites
    /\ wcall.result.tag = "Err"
    /\ Len(written) >= 2
    /\ written[1] # written[2]

\* C10: clone3 yields an error exactly when the system call reports a
\* negative result, Child exactly when it reports 0, and otherwise Parent
\* with the reported pid, which is greater than 0.
C10_CloneOutcome ==
    clone # None =>
        /\ clone.tag \in {"Err", "Child", "Parent"}
        /\ clone.tag = "Err" <=> kernel.pid < 0
        /\ clone.tag = "Err" => clone.errno = kernel.errno
        /\ clone.tag = "Child" <=> kernel.pid = 0
        /\ clone.tag = "Parent" => clone.pid > 0 /\ clone.pid = kernel.pid

C10_Witness == clone # None /\ clone.tag = "Parent" /\ reqFlags = {}

\* C11: a mount call issued through the builder has no source and no
\* filesystem type for SetPropagation, a source and no filesystem type for
\* Bind, both for Create; and no configuration is the origin of two calls.
C11_ShapeFixedByAction ==
    /\ \A i \in DOMAIN issued :
         LET c == issued[i].call
         IN /\ c.op = "mount"
            /\ c.target \in MountTargets
            /\ issued[i].action = "SetPropagation" =>
                  c.source = NULL /\ c.fs_type = NULL
            /\ issued[i].action = "Bind" =>
                  c.source \in MountSources /\ c.fs_type = NULL
            /\ issued[i].action = "Create" =>
                  c.source \in MountSources /\ c.fs_type \in FsTypes
    /\ \A i, j \in DOMAIN issued : issued[i].id = issued[j].id => i = j
    /\ \A i \in DOMAIN issued :
         builder.id = issued[i].id => builder.stage = "Moved"

C11_Witness ==
    /\ issued # <<>>
    /\ issued[1].action = "Bind"
    /\ "MS_REC" \in issued[1].call.flags
    /\ builder.stage = "Moved"

IsChildMountAt(e, target) == e.proc = "child" /\ e.op = "mount" /\ e.target = target

\* C12: in the mount sequence the mount at <root>/proc is a proc filesystem
\* mounted nodev, nosuid and noexec, and the mount at <root>/sys is a sysfs
\* mounted with those three and read-only: the restrictions set on the
\* builder before create(..) are in the flags of the call issued.
C12_ProcSysRestrictions ==
    \A i \in DOMAIN log :
        /\ IsChildMountAt(log[i], root \o "/proc") =>
              /\ log[i].fs_type = "proc"
              /\ {"MS_NODEV", "MS_NOSUID", "MS_NOEXEC"} \subseteq log[i].flags
        /\ IsChildMountAt(log[i], root \o "/sys") =>
              /\ log[i].fs_type = "sysfs"
              /\ {"MS_RDONLY", "MS_NODEV", "MS_NOSUID", "MS_NOEXEC"} \subseteq log[i].flags

C12_Witness ==
    \E i, j \in DOMAIN log :
        /\ IsChildMountAt(log[i], root \o "/proc") /\ log[i].ok
        /\ IsChildMountAt(log[j], root \o "/sys") /\ log[j].ok

IsFailedExec(e) == e.proc = "child" /\ e.op = "execve" /\ ~e.ok

\* C13: once execve has returned, the child only reports the failure and
\* terminates, with exit status 1 (or by abort when the report itself
\* fails); it issues no other call, and it never returns from spawn.
C13_ExecReturnIsFatal ==
    /\ cpc # "Returned"
    /\ \A i \in DOMAIN log :
         IsFailedExec(log[i]) =>
            /\ cpc \in {"exec_failed", "Terminated"}
            /\ \A j \in (i + 1) .. Len(log) :
                  log[j].proc = "child" => log[j].op \in {"write", "_exit"}
            /\ cpc = "Terminated" =>
                  /\ status \in {"exit(1)", "SIGABRT"}
                  /\ \E j \in (i + 1) .. Len(log) :
                        log[j] = Ev("child", Call("write", "stdout"), status = "exit(1)")
                  /\ status = "exit(1)" =>
                        \E j \in (i + 1) .. Len(log) :
                           log[j] = Ev("child", Call("_exit", NULL), TRUE)

C13_Witness ==
    /\ \E i \in DOMAIN log : IsFailedExec(log[i])
    /\ cpc = "Terminated"
    /\ status = "exit(1)"

IsFailedCloseRange(e) == e.proc = "child" /\ e.op = "close_range" /\ ~e.ok

\* C14: when the close_range over descriptors 3 and above fails, the child
\* terminates by abort and the failed close_range is the last call it ever
\* made: no handshake read, no mount, no execve.
C14_CloseRangeFailureAborts ==
    \A i \in DOMAIN log :
        IsFailedCloseRange(log[i]) =>
           /\ cpc = "Terminated"
           /\ status = "SIGABRT"
           /\ handshake = "pending"
           /\ \A j \in DOMAIN log :
                 log[j].proc = "child" /\ j # i =>
                    /\ j < i
                    /\ log[j].op \notin {"read", "mount", "execve"}

C14_Witness ==
    /\ \E i \in DOMAIN log : IsFailedCloseRange(log[i])
    /\ ppc \in {"Done", "Panicked"}

\* C15: the child does not stay blocked in the handshake read: whatever the
\* parent does or fails to do, the read returns, and a read that ends with
\* an error (the timeout) terminates the child.
C15_HandshakeReadBounded ==
    /\ (cpc = "read") ~> (cpc # "read")
    /\ [](handshake = "error" => cpc = "Terminated" /\ status = "SIGABRT")

\* the read timed out on a parent that holds its endpoint and has not written
C15_Witness ==
    /\ handshake = "error"
    /\ cpc = "Terminated"
    /\ "parent_sock" \in pfds
    /\ chan = <<>>
    /\ \A i \in DOMAIN log : ~IsParentWrite(log[i])

\* C16: what spawn returns in the parent's terminal state Done tells a
\* child that terminated with a non-zero status from one that succeeded: the
\* value returned for a failed child is not the one returned for exit(0).
C16_DoneHoldsExitStatus ==
    (ppc = "Done" /\ reaped /\ status # "exit(0)") => ret # "Ok"

IsFailedParentCall(e) == e.proc = "parent" /\ ~e.ok

\* C17: a failed call of the parent is surfaced as an error result of
\* spawn: the parent never panics, it makes no further call after the
\* failed one, and a spawn that returns after a failure does not return Ok.
C17_ParentFailuresReturned ==
    /\ ppc # "Panicked"
    /\ \A i \in DOMAIN log :
          IsFailedParentCall(log[i]) =>
             /\ \A j \in (i + 1) .. Len(log) : log[j].proc # "parent"
             /\ ret # "Ok"

\* C18: a mapping written after one that succeeded fails with a
\* permission-denied error that the mapping operation hands back as an
\* error value.
C18_SecondMappingIsErrValue ==
    \A n \in DOMAIN ucalls :
        (\E m \in 1 .. (n - 1) : ucalls[m].result = "Returned") =>
            /\ ucalls[n].result = "Err"
            /\ ucalls[n].errno = "EPERM"

\* C19: once clone3 has produced a child, the parent leaves spawn, by
\* returning or otherwise, only after it has waited for the child.
C19_ParentReapsChild ==
    (clone.tag = "Parent" /\ ppc \in {"Done", "Panicked"}) => reaped

\* C20: the close_range of the child marks descriptors close-on-exec
\* instead of closing them, so the child's handshake endpoint is open while
\* the handshake read is pending; at the execve every open descriptor is
\* marked close-on-exec, and the target program holds none of them.
C20_DescriptorsStripped ==
    /\ \A i \in DOMAIN log :
          (log[i].proc = "child" /\ log[i].op = "close_range") =>
             "CLOSE_RANGE_CLOEXEC" \in log[i].flags
    /\ cpc = "read" => "child_sock" \in cfds
    /\ cpc = "do_exec" => cfds \subseteq ccloexec
    /\ cpc = "Image" => cfds = {}

\* the target program runs after a spawn that began with a descriptor open
\* without close-on-exec
C20_Witness ==
    /\ cpc = "Image"
    /\ handshake = "byte"
    /\ "inherited_fd" \in pfds
    /\ "inherited_fd" \notin pcloexec

\* the child is blocked in the handshake read: nothing is queued and the
\* parent's endpoint is still open, so only the timeout can end the read
ChildBlockedInRead ==
    /\ cpc = "read"
    /\ "child_sock" \in cfds
    /\ chan = <<>>
    /\ "parent_sock" \in (pfds \cup cfds)

\* C21: the parent is never waiting for the child's termination while the
\* child is blocked in the handshake read, and every spawn eventually
\* reaches parent Done and child Terminated.
C21_NoDeadlockAndTermination ==
    /\ [](~(ppc = "waitpid" /\ ChildBlockedInRead))
    /\ <>(ppc = "Done" /\ cpc = "Terminated")

=============================================================================
